---- MODULE Spec2Model ----
(***************************************************************************)
(* State-machine model of the image arrow annotator:                       *)
(*   src/components/ImageCanvas.tsx        (canvas state, pointer handlers) *)
(*   src/components/CoordinatesOutput.tsx  (coordinate exporter)            *)
(*   src/src/app/page.tsx                  (image upload wiring)            *)
(*                                                                         *)
(* Numbers.  The code computes with IEEE doubles; the model computes with  *)
(* exact rationals held as integers over a fixed denominator:              *)
(*   - a Point coordinate is an integer number of 1/CoordDen pixels;       *)
(*   - a curvature is an integer number of 1/CurvDen (slider positions     *)
(*     that are multiples of 0.25, exact in binary);                       *)
(*   - a control point coordinate is an integer number of 1/CpDen pixels;  *)
(*   - an exported number is an integer number of hundredths.              *)
(* A division by zero that yields NaN in the code is the value NaN here.   *)
(* Every comparison against a threshold is done on squares, split so that  *)
(* no intermediate leaves the 32-bit range of the model checker.           *)
(***************************************************************************)
EXTENDS Integers, Sequences, FiniteSets, TLC

\* ------------------------------------------------------------------ units
\* Resolution of a pointer coordinate (x = displayX * scaleX): 1/8 pixel.
CoordDen == 8
\* Resolution of a curvature value: 1/4 (slider step 0.01, positions k*0.25).
CurvDen == 4
\* Resolution of a control point: mid (1/2) and perp*c*len/2 (1/(2*CurvDen)).
CpDen == CoordDen * 2 * CurvDen

PX(n) == n * CoordDen
Pt(xpx, ypx) == [x |-> PX(xpx), y |-> PX(ypx)]

Abs(n) == IF n < 0 THEN -n ELSE n

\* ------------------------------------------------------- program constants
EndpointThreshold == 15
LineHitThreshold == 10
HandleSize == 6
TextBoxWidth == 150
TextBoxHeight == 80
DoubleClickMs == 300
DefaultText == "Double-click to edit"

\* ------------------------------------------------------------ optional values
\* A field that is undefined in the code (controlPoint?, segmentId?,
\* isEndSegment?) or null (selection, currentLine).
NoSegment == 0
NoLine == -1
NoTextBox == 0
NULL == [null |-> TRUE]
NoControlPoint == [def |-> FALSE, nan |-> FALSE, x |-> 0, y |-> 0]
NaNPoint == [def |-> TRUE, nan |-> TRUE, x |-> 0, y |-> 0]
CP(x64, y64) == [def |-> TRUE, nan |-> FALSE, x |-> x64, y |-> y64]

\* ------------------------------------------------------------------ geometry
\* distanceToPoint(p1, p2) < thr  (thr in pixels), decided on squares.
distanceToPointLt(p1, p2, thr) ==
    LET dx == p2.x - p1.x
        dy == p2.y - p1.y
        t  == thr * CoordDen
    IN  /\ Abs(dx) < t
        /\ Abs(dy) < t
        /\ dx * dx + dy * dy < t * t

\* |cross| < t * sqrt(lenSq), i.e. cross^2 < t^2 * lenSq, without overflow.
CrossLt(cross, lenSq, t) ==
    LET c == Abs(cross)
        q == c \div t
        r == c % t
    IN  IF q > 40000 THEN FALSE
        ELSE IF q * q >= lenSq THEN FALSE
        ELSE IF (q + 1) * (q + 1) <= lenSq THEN TRUE
        ELSE 2 * q * r * t + r * r < t * t * (lenSq - q * q)

\* distanceToLineSegment(p, start, end) < thr  (thr in pixels).
distanceToLineSegmentLt(p, start, end, thr) ==
    LET A == p.x - start.x
        B == p.y - start.y
        C == end.x - start.x
        D == end.y - start.y
        dot == A * C + B * D
        lenSq == C * C + D * D
    IN  IF lenSq = 0 \/ dot < 0 THEN distanceToPointLt(p, start, thr)
        ELSE IF dot > lenSq THEN distanceToPointLt(p, end, thr)
        ELSE CrossLt(A * D - B * C, lenSq, thr * CoordDen)

\* calculateControlPoint: mid + perp * curvature * length / 2 with
\* perp = (-dy, dx) / length.  For length # 0 the length cancels; for
\* length = 0 the code divides 0 by 0 and every coordinate is NaN.
\* In 1/CpDen pixels: mid = 4 * (s + e), offset = (-dy, dx) * curvature.
calculateControlPoint(start, end, curvature) ==
    LET dx == end.x - start.x
        dy == end.y - start.y
    IN  IF dx = 0 /\ dy = 0 THEN NaNPoint
        ELSE CP(4 * (start.x + end.x) - dy * curvature,
                4 * (start.y + end.y) + dx * curvature)

\* distanceToPoint(position, q) < thr for q given in 1/den pixels, den a
\* multiple of CoordDen; NaN compares false.  The squares are split in two
\* limbs of base M^2 (M = den): dx^2 + dy^2 < (thr*M)^2.
SqHi(d, M) ==
    LET a == d \div M
        b == d % M
        rest == 2 * a * b * M + b * b
    IN  [hi |-> a * a + rest \div (M * M), lo |-> rest % (M * M)]

distanceToFinePointLt(position, qx, qy, den, thr) ==
    LET dx == Abs(qx - position.x * (den \div CoordDen))
        dy == Abs(qy - position.y * (den \div CoordDen))
    IN  /\ dx < thr * den
        /\ dy < thr * den
        /\ LET sx == SqHi(dx, den)
               sy == SqHi(dy, den)
           IN  sx.hi + sy.hi + (sx.lo + sy.lo) \div (den * den) < thr * thr

distanceToControlPointLt(position, cp, thr) ==
    /\ ~cp.nan
    /\ distanceToFinePointLt(position, cp.x, cp.y, CpDen, thr)

\* The sample of the quadratic curve at t = k/10, in 1/(100*CpDen) pixels.
\* Weights (1-t)^2, 2(1-t)t, t^2 times 100.
CurveSampleHit(position, line, k) ==
    LET cp == line.controlPoint
        w0 == (10 - k) * (10 - k)
        w1 == 2 * (10 - k) * k
        w2 == k * k
        s  == CpDen \div CoordDen
        sx == w0 * line.start.x * s + w1 * cp.x + w2 * line.end.x * s
        sy == w0 * line.start.y * s + w1 * cp.y + w2 * line.end.y * s
    IN  /\ ~cp.nan
        /\ distanceToFinePointLt(position, sx, sy, 100 * CpDen, LineHitThreshold)

\* One line of findClickedLine's loop.  The code's loop variable t is
\* 0.1, 0.2, ... accumulated in doubles: the tenth value is 0.9999999999999999
\* < 1, so ten samples are taken, the last one at the end point (up to rounding).
LineIsHit(position, line) ==
    IF line.curvature # 0 /\ line.controlPoint.def
    THEN \/ distanceToControlPointLt(position, line.controlPoint, LineHitThreshold)
         \/ distanceToPointLt(position, line.start, LineHitThreshold)
         \/ distanceToPointLt(position, line.end, LineHitThreshold)
         \/ \E k \in 1..10 : CurveSampleHit(position, line, k)
    ELSE distanceToLineSegmentLt(position, line.start, line.end, LineHitThreshold)

\* findClickedLine: the last line (highest index) that is hit; indices are
\* the code's 0-based indices, NoLine (null) when no line is hit.
findClickedLine(ls, position) ==
    LET hits == {i \in 1..Len(ls) : LineIsHit(position, ls[i])}
    IN  IF hits = {} THEN NoLine
        ELSE (CHOOSE i \in hits : \A j \in hits : j <= i) - 1

\* findLineEndPoint, buggy variant: no end point is ever found.
findNoLineEndPoint(ls, position) == NULL

\* findLineEndPoint: the first line (lowest index) with an end point within
\* the threshold, its start tested before its end.
findLineEndPoint(ls, position) ==
    LET near(i) == \/ distanceToPointLt(position, ls[i].start, EndpointThreshold)
                   \/ distanceToPointLt(position, ls[i].end, EndpointThreshold)
        hits == {i \in 1..Len(ls) : near(i)}
    IN  IF hits = {} THEN NULL
        ELSE LET i == CHOOSE i \in hits : \A j \in hits : i <= j
             IN  [lineIndex |-> i - 1,
                  isStart |-> distanceToPointLt(position, ls[i].start, EndpointThreshold)]

\* isPointInTextBox
isPointInTextBox(point, textBox) ==
    /\ point.x >= textBox.position.x
    /\ point.x <= textBox.position.x + PX(textBox.width)
    /\ point.y >= textBox.position.y
    /\ point.y <= textBox.position.y + PX(textBox.height)

\* isPointOnResizeHandle
isPointOnResizeHandle(point, textBox) ==
    /\ point.x >= textBox.position.x + PX(textBox.width) - PX(HandleSize)
    /\ point.x <= textBox.position.x + PX(textBox.width)
    /\ point.y >= textBox.position.y + PX(textBox.height) - PX(HandleSize)
    /\ point.y <= textBox.position.y + PX(textBox.height)

\* findClickedTextBox: the topmost (last) text box containing the point.
findClickedTextBox(tbs, point) ==
    LET hits == {i \in 1..Len(tbs) :
                    isPointOnResizeHandle(point, tbs[i]) \/ isPointInTextBox(point, tbs[i])}
    IN  IF hits = {} THEN NULL
        ELSE LET i == CHOOSE i \in hits : \A j \in hits : j <= i
             IN  [textBoxId |-> tbs[i].id,
                  isResize |-> isPointOnResizeHandle(point, tbs[i])]

\* ------------------------------------------------------------------ exporter
\* Math.round(v * 100) for v = n/den: an integer number of hundredths
\* (Math.round rounds a half towards +infinity).
Round100(n, den) == (200 * n + den) \div (2 * den)

\* dx*dx + dy*dy for integers of size up to 10^5, in two limbs of base 10^6.
SumOfSquares(dx, dy) ==
    LET sx == SqHi(Abs(dx), 1000)
        sy == SqHi(Abs(dy), 1000)
    IN  [hi |-> sx.hi + sy.hi + (sx.lo + sy.lo) \div 1000000,
         lo |-> (sx.lo + sy.lo) % 1000000]

\* L*L - L < N for 0 <= L < 10^6 and N in limbs: L - 1/2 < sqrt(N).
HalfBelowRoot(L, N) ==
    LET s == SqHi(L, 1000)
        hi == IF s.lo >= L THEN s.hi ELSE s.hi - 1
        lo == IF s.lo >= L THEN s.lo - L ELSE s.lo + 1000000 - L
    IN  hi < N.hi \/ (hi = N.hi /\ lo < N.lo)

RECURSIVE RoundRootSearch(_, _, _)
RoundRootSearch(N, lo, hi) ==
    IF lo >= hi THEN lo
    ELSE LET mid == (lo + hi + 1) \div 2
         IN  IF HalfBelowRoot(mid, N) THEN RoundRootSearch(N, mid, hi)
             ELSE RoundRootSearch(N, lo, mid - 1)

\* Math.round(Math.sqrt(dx * dx + dy * dy)) for integers dx, dy: the greatest
\* L with L - 1/2 < sqrt(dx*dx + dy*dy), 0 when dx = dy = 0.
RoundHypot(dx, dy) == RoundRootSearch(SumOfSquares(dx, dy), 0, 200000)

\* Math.round(Math.atan2(dy, dx) * (180 / Math.PI) * 100), in hundredths of a
\* degree, for the directions whose angle is a multiple of 45 degrees; any
\* other direction is kept as the uninterpreted term atan2(dy, dx).
AngleDeg(dy, dx) ==
    LET deg(n) == [exact |-> TRUE, deg100 |-> n * 100, dy |-> 0, dx |-> 0]
    IN  CASE dy = 0 /\ dx >= 0 -> deg(0)
          [] dy = 0 /\ dx < 0 -> deg(180)
          [] dx = 0 /\ dy > 0 -> deg(90)
          [] dx = 0 /\ dy < 0 -> deg(-90)
          [] dy > 0 /\ dx = dy -> deg(45)
          [] dy > 0 /\ dx = -dy -> deg(135)
          [] dy < 0 /\ dx = -dy -> deg(-45)
          [] dy < 0 /\ dx = dy -> deg(-135)
          [] OTHER -> [exact |-> FALSE, deg100 |-> 0, dy |-> dy, dx |-> dx]

RoundPoint(p) == [x |-> Round100(p.x, CoordDen), y |-> Round100(p.y, CoordDen)]

RoundControlPoint(cp) ==
    IF cp.nan THEN [nan |-> TRUE, x |-> 0, y |-> 0]
    ELSE [nan |-> FALSE, x |-> Round100(cp.x, CpDen), y |-> Round100(cp.y, CpDen)]

NoRoundedPoint == [nan |-> FALSE, x |-> 0, y |-> 0]

\* Length of a block, buggy variant: the sum of the coordinate differences.
BlockLengthManhattan(line) ==
    LET s == RoundPoint(line.start)
        e == RoundPoint(line.end)
    IN  Abs(e.x - s.x) + Abs(e.y - s.y)

\* Length of a block: Math.round(Math.sqrt(dx*dx + dy*dy) * 100) with dx, dy
\* the differences of the ROUNDED coordinates (here in hundredths).
BlockLength(line) ==
    LET s == RoundPoint(line.start)
        e == RoundPoint(line.end)
    IN  RoundHypot(e.x - s.x, e.y - s.y)

BlockAngle(line) ==
    LET s == RoundPoint(line.start)
        e == RoundPoint(line.end)
    IN  AngleDeg(e.y - s.y, e.x - s.x)

\* The text block of one line (standalone "Arrow N" or "Segment Line N"):
\* Start, End, Curvature and Control Point when curvature is truthy and the
\* line carries a controlPoint, Length, Angle, and for a segment line
\* "Is End Segment".
LineBlock(line) ==
    LET curved == line.curvature # 0
    IN  [start |-> RoundPoint(line.start),
         end |-> RoundPoint(line.end),
         hasCurvature |-> curved,
         curvature |-> IF curved THEN Round100(line.curvature, CurvDen) ELSE 0,
         hasControlPoint |-> curved /\ line.controlPoint.def,
         controlPoint |-> IF curved /\ line.controlPoint.def
                          THEN RoundControlPoint(line.controlPoint)
                          ELSE NoRoundedPoint,
         length |-> BlockLength(line),
         angle |-> BlockAngle(line),
         isEndSegment |-> IF line.segmentId # NoSegment
                          THEN (IF line.isEndSegment = "true" THEN "Yes" ELSE "No")
                          ELSE "absent"]

\* One entry of jsonData.lines.
JsonLine(line) ==
    [start |-> RoundPoint(line.start),
     end |-> RoundPoint(line.end),
     curvature |-> IF line.curvature # 0 THEN Round100(line.curvature, CurvDen) ELSE 0,
     segmentId |-> line.segmentId,
     isEndSegment |-> IF line.segmentId # NoSegment THEN line.isEndSegment ELSE "absent",
     hasControlPoint |-> line.controlPoint.def,
     controlPoint |-> IF line.controlPoint.def
                      THEN RoundControlPoint(line.controlPoint)
                      ELSE NoRoundedPoint]

TextBoxBlock(tb) ==
    [position |-> RoundPoint(tb.position),
     width |-> tb.width,
     height |-> tb.height,
     text |-> tb.text]

\* The segment ids of the lines in order of first appearance (the key order
\* of the segments object).
RECURSIVE SegmentKeys(_, _)
SegmentKeys(ls, seen) ==
    IF ls = <<>> THEN <<>>
    ELSE LET id == Head(ls).segmentId
         IN  IF id = NoSegment \/ id \in seen THEN SegmentKeys(Tail(ls), seen)
             ELSE <<id>> \o SegmentKeys(Tail(ls), seen \cup {id})

IsStandalone(line) == line.segmentId = NoSegment

\* groupLinesBySegment
groupLinesBySegment(ls) ==
    LET keys == SegmentKeys(ls, {})
    IN  [segments |-> [k \in 1..Len(keys) |->
                          SelectSeq(ls, LAMBDA l : l.segmentId = keys[k])],
         standaloneLines |-> SelectSeq(ls, IsStandalone)]

\* formatCoordinates: the export text as a structure carrying every number
\* and label the text holds.
formatCoordinates(ls, tbs) ==
    IF Len(ls) = 0 /\ Len(tbs) = 0
    THEN [empty |-> TRUE, segments |-> <<>>, standalone |-> <<>>,
          textBoxes |-> <<>>, jsonLines |-> <<>>, jsonTextBoxes |-> <<>>]
    ELSE LET g == groupLinesBySegment(ls)
         IN  [empty |-> FALSE,
              segments |-> [k \in 1..Len(g.segments) |->
                              [i \in 1..Len(g.segments[k]) |-> LineBlock(g.segments[k][i])]],
              standalone |-> [i \in 1..Len(g.standaloneLines) |-> LineBlock(g.standaloneLines[i])],
              textBoxes |-> [i \in 1..Len(tbs) |-> TextBoxBlock(tbs[i])],
              jsonLines |-> [i \in 1..Len(ls) |-> JsonLine(ls[i])],
              jsonTextBoxes |-> [i \in 1..Len(tbs) |-> TextBoxBlock(tbs[i])]]

\* ImageCanvas render: CoordinatesOutput is mounted only when lines.length > 0.
RenderCoordinatesOutput(ls, tbs) ==
    IF Len(ls) > 0
    THEN [shown |-> TRUE, text |-> formatCoordinates(ls, tbs)]
    ELSE [shown |-> FALSE, text |-> formatCoordinates(<<>>, <<>>)]

\* ------------------------------------------------------------------- bounds
\* Under Spec no more than MaxLines arrows and MaxTextBoxes text boxes exist
\* at a time and the clock advances at most MaxTicks times; under SpecArrows
\* no more than MaxArrowLines arrows exist at a time, under SpecChain no more
\* than MaxChainLines.
MaxLines == 1
MaxTextBoxes == 1
MaxTicks == 1
MaxArrowLines == 2
MaxChainLines == 3

\* The clock advances in steps of the double-click threshold, so two clicks
\* are 0 ms apart (a double click) or 300 ms and more (none).
TickMs == DoubleClickMs

\* Pointer positions (image pixels) a pointer event can report under Spec:
\* three points on one horizontal line, farther apart than a text box is wide.
PointerPositions == {Pt(100, 100), Pt(300, 100), Pt(500, 100)}

\* Pointer positions under SpecArrows and SpecChain: three points on one
\* horizontal line and a fourth 12 px below the middle one, closer to it than
\* the end point threshold and farther from the horizontal through it than
\* the line threshold.
ArrowPointerPositions == {Pt(100, 100), Pt(150, 100), Pt(200, 100), Pt(150, 112)}

\* End points of the arrows SpecExport starts from: whole pixels, among them
\* the arrow (100,100) -> (200,100), and fractions of a pixel whose hundredths
\* round (100.125, 103.375, 96.875).
ExportPoints ==
    {Pt(100, 100), Pt(200, 100), Pt(200, 200),
     [x |-> 801, y |-> 804], [x |-> 827, y |-> 775]}

\* Slider positions under SpecExport: -0.5, -0.25, 0, 0.25, 0.5.
ExportCurvatures == {-2, -1, 0, 1, 2}

\* The pointer events at a set of positions: inside the displayed image at an
\* image position, or outside of it.
EventsAt(positions) ==
    {[inImage |-> TRUE, at |-> p] : p \in positions}
        \cup {[inImage |-> FALSE, at |-> Pt(0, 0)]}

\* Pointer positions under SpecTextBox: a point where a text box is placed,
\* the point 2 px inside the bottom-right corner of a text box placed there
\* (on its resize handle), and a point off every such box.
TextBoxPointerPositions ==
    {Pt(100, 100),
     Pt(100 + TextBoxWidth - 2, 100 + TextBoxHeight - 2),
     Pt(100 + 2 * TextBoxWidth, 100 + 3 * TextBoxHeight)}

PointerEvents == EventsAt(PointerPositions)
TextBoxPointerEvents == EventsAt(TextBoxPointerPositions)
ArrowPointerEvents == EventsAt(ArrowPointerPositions)

\* Slider positions of the curvature input (min -0.5, max 0.5).
CurvatureInputs == {0, 2}

\* What the user may have typed into the text editor.
TypedTexts == {"", "beta"}

\* -------------------------------------------------------------------- state
VARIABLES
    imageUrl,           \* page.tsx uploadedImage: "none" (null) or "blob"
    imageLoading,       \* an img.onload of the imageUrl effect is pending
    dimensions,         \* [width, height] in pixels, 0 before the first load
    lines,              \* the Arrow list
    selectedLineIndex,  \* 0-based index or NoLine
    isDrawing,
    currentLine,        \* the in-progress Arrow or NULL
    extendingLine,
    currentSegmentId,   \* segment id or NoSegment
    textBoxes,          \* the TextBox list
    selectedTextBoxId,  \* id or NoTextBox
    isAddingTextBox,
    isDraggingTextBox,
    dragOffset,
    lastClickTime,      \* window.lastClickTime (0 when unset)
    textEditor,         \* id of the text box whose textarea is open, or NoTextBox
    now,                \* Date.now(), ms
    renderedLines,      \* the lines prop of CoordinatesOutput as of the last render
    lastEvent,          \* history: name of the handler that changed the state last
    paintedFrame,       \* history: what the canvas shows after the last redraw,
                        \* followed by the specification that paints (SpecPaint)
    pressedEnds         \* history: indices of the lines without segmentId whose
                        \* end the pointer-down of the gesture in progress
                        \* was near

vars == <<imageUrl, imageLoading, dimensions, lines, selectedLineIndex, isDrawing,
          currentLine, extendingLine, currentSegmentId, textBoxes, selectedTextBoxId,
          isAddingTextBox, isDraggingTextBox, dragOffset, lastClickTime, textEditor,
          now, renderedLines, lastEvent, paintedFrame, pressedEnds>>

imageVars == <<imageUrl, imageLoading, dimensions>>
lineVars == <<lines, selectedLineIndex, isDrawing, currentLine, extendingLine,
              currentSegmentId>>
textVars == <<textBoxes, selectedTextBoxId, isAddingTextBox, isDraggingTextBox,
              dragOffset, lastClickTime, textEditor>>

Line(start, end, curvature, segmentId, isEndSegment) ==
    [start |-> start, end |-> end, curvature |-> curvature,
     controlPoint |-> NoControlPoint, segmentId |-> segmentId,
     isEndSegment |-> isEndSegment]

\* What drawLines paints of the Arrows, the TextBoxes and the selection: each
\* line from start to end with its curvature (the control point is computed
\* anew by drawArrow), its arrowhead and its connection points, the line at a
\* valid selectedLineIndex highlighted; each text box's rectangle and text,
\* the box whose id is selectedTextBoxId highlighted.
Picture(ls, tbs, sel, selBox) ==
    [lines |-> [i \in 1..Len(ls) |->
                   [start |-> ls[i].start, end |-> ls[i].end,
                    curvature |-> ls[i].curvature,
                    arrowhead |-> (ls[i].segmentId = NoSegment
                                       \/ ls[i].isEndSegment = "true"),
                    connectionPoints |-> (ls[i].segmentId # NoSegment)]],
     textBoxes |-> [i \in 1..Len(tbs) |->
                       [id |-> tbs[i].id, position |-> tbs[i].position,
                        text |-> tbs[i].text, width |-> tbs[i].width,
                        height |-> tbs[i].height]],
     selectedLine |-> IF sel # NoLine /\ sel >= 0 /\ sel < Len(ls) THEN sel
                      ELSE NoLine,
     selectedTextBox |-> IF \E i \in 1..Len(tbs) : tbs[i].id = selBox THEN selBox
                         ELSE NoTextBox]

\* useState initial values; page.tsx starts without an image.
Init ==
    /\ imageUrl = "none"
    /\ imageLoading = FALSE
    /\ dimensions = [width |-> 0, height |-> 0]
    /\ lines = <<>>
    /\ selectedLineIndex = NoLine
    /\ isDrawing = FALSE
    /\ currentLine = NULL
    /\ extendingLine = FALSE
    /\ currentSegmentId = NoSegment
    /\ textBoxes = <<>>
    /\ selectedTextBoxId = NoTextBox
    /\ isAddingTextBox = FALSE
    /\ isDraggingTextBox = FALSE
    /\ dragOffset = [x |-> 0, y |-> 0]
    /\ lastClickTime = 0
    /\ textEditor = NoTextBox
    /\ now = DoubleClickMs
    /\ renderedLines = <<>>
    /\ lastEvent = "none"
    /\ paintedFrame = Picture(<<>>, <<>>, NoLine, NoTextBox)
    /\ pressedEnds = {}

\* ------------------------------------------------------------------ drawing
\* drawArrow(ctx, line, isSelected): its only effect on the state is that a
\* selected line stores its freshly computed control point.
drawArrow(line, isSelected) ==
    IF isSelected
    THEN [line EXCEPT !.controlPoint =
             calculateControlPoint(line.start, line.end, line.curvature)]
    ELSE line

\* drawLines, buggy variant: no line is drawn as selected.
drawLinesNoSelection(ls, sel) == ls

\* drawLines (run by the redraw effect after every change of lines,
\* currentLine or selectedLineIndex): every line is drawn, the selected one
\* with isSelected = true when the selection is a valid index.
drawLines(ls, sel) ==
    LET validSelection == sel # NoLine /\ sel >= 0 /\ sel < Len(ls)
    IN  [i \in 1..Len(ls) |-> drawArrow(ls[i], validSelection /\ i - 1 = sel)]

\* getScaledCoordinates
OutOfBounds == [x |-> PX(-1), y |-> PX(-1)]
\* getScaledCoordinates, buggy variant: without the bounds test a pointer 5 px
\* left of the image reports a negative x.
getScaledCoordinatesUnchecked(e) ==
    IF dimensions.width = 0 THEN [x |-> 0, y |-> 0]
    ELSE IF ~e.inImage THEN [x |-> PX(-5), y |-> e.at.y]
    ELSE e.at

getScaledCoordinates(e) ==
    IF dimensions.width = 0 THEN [x |-> 0, y |-> 0]
    ELSE IF ~e.inImage THEN OutOfBounds
    ELSE e.at

\* The handlers' test of the sentinel, buggy variant: no position is refused.
IsNeverOutOfBounds(position) == FALSE

IsOutOfBounds(position) == position.x = PX(-1) \/ position.y = PX(-1)

\* generateSegmentId: an id no line carries (the code draws 9 random base-36
\* digits).
generateSegmentId ==
    LET used == {lines[i].segmentId : i \in 1..Len(lines)}
                    \cup {currentSegmentId}
                    \cup (IF currentLine = NULL THEN {} ELSE {currentLine.segmentId})
    IN  CHOOSE id \in 1..(Len(lines) + 3) :
            id \notin used /\ \A j \in 1..(id - 1) : j \in used

\* One render and the effects after it: CoordinatesOutput receives the lines
\* as they are at render time (atRender), then the redraw effect runs and
\* stores the control point on the selected line.
Rendered(atRender, sel) ==
    /\ renderedLines' = atRender
    /\ lines' = drawLines(atRender, sel)

\* A handler whose set-state calls may all repeat the current values: React
\* renders again only when some state changed.
RenderedIf(changed, atRender, sel) ==
    IF changed THEN Rendered(atRender, sel)
    ELSE lines' = atRender /\ UNCHANGED renderedLines

\* The CoordinatesOutput panel as the user sees it.
coordinatesOutput == RenderCoordinatesOutput(renderedLines, textBoxes)

\* ---------------------------------------------------------------- text boxes
TextBox(id, position) ==
    [id |-> id, position |-> position, text |-> DefaultText,
     width |-> TextBoxWidth, height |-> TextBoxHeight,
     isDragging |-> FALSE, isEditing |-> FALSE]

HasTextBox(tbs, id) == \E i \in 1..Len(tbs) : tbs[i].id = id

\* textBoxes.find(box => box.id === id), for an id that is present
FindTextBox(tbs, id) ==
    tbs[CHOOSE i \in 1..Len(tbs) : tbs[i].id = id /\ \A j \in 1..(i - 1) : tbs[j].id # id]

\* finishEditing (blur or Enter of the textarea of text box id): the trimmed
\* value, or the default text when it is empty, becomes the text.
finishEditing(tbs, id, typed) ==
    LET newText == IF typed = "" THEN DefaultText ELSE typed
    IN  [i \in 1..Len(tbs) |->
            IF tbs[i].id = id
            THEN [tbs[i] EXCEPT !.text = newText, !.isEditing = FALSE]
            ELSE tbs[i]]

\* A pointer-down on the canvas or a new textarea taking the focus blurs the
\* open textarea, which runs finishEditing after the handler.
BlurEditor(tbs, typed) ==
    IF textEditor = NoTextBox THEN tbs ELSE finishEditing(tbs, textEditor, typed)

TypedNow == IF textEditor = NoTextBox THEN {""} ELSE TypedTexts

\* startEditingTextBox(id): marks the box as the one being edited and opens
\* a textarea over it when the box exists.
startEditingTextBox(tbs, id) ==
    [i \in 1..Len(tbs) |-> [tbs[i] EXCEPT !.isEditing = (tbs[i].id = id)]]

\* ------------------------------------------------------------ pointer-down
\* handleMouseDown, branch (a): a text box is hit.
MouseDownOnTextBox(position, hit) ==
    LET id == hit.textBoxId
        box == FindTextBox(textBoxes, id)
        isDouble == now - lastClickTime < DoubleClickMs
    IN  /\ selectedLineIndex' = NoLine
        /\ selectedTextBoxId' = id
        /\ \E typed \in TypedNow :
            IF hit.isResize
            THEN /\ textBoxes' = BlurEditor(
                        [i \in 1..Len(textBoxes) |->
                            IF textBoxes[i].id = id
                            THEN [textBoxes[i] EXCEPT !.isDragging = FALSE]
                            ELSE textBoxes[i]], typed)
                 /\ textEditor' = NoTextBox
                 /\ UNCHANGED <<lastClickTime, dragOffset, isDraggingTextBox>>
            ELSE /\ lastClickTime' = now
                 /\ IF isDouble
                    THEN /\ textBoxes' = BlurEditor(startEditingTextBox(textBoxes, id), typed)
                         /\ textEditor' = id
                         /\ UNCHANGED <<dragOffset, isDraggingTextBox>>
                    ELSE /\ dragOffset' = [x |-> position.x - box.position.x,
                                           y |-> position.y - box.position.y]
                         /\ isDraggingTextBox' = TRUE
                         /\ textBoxes' = BlurEditor(
                                [i \in 1..Len(textBoxes) |->
                                    [textBoxes[i] EXCEPT !.isDragging = (textBoxes[i].id = id)]],
                                typed)
                         /\ textEditor' = NoTextBox
        /\ Rendered(lines, NoLine)
        /\ UNCHANGED <<isDrawing, currentLine, extendingLine, currentSegmentId,
                       isAddingTextBox>>

\* createTextBox(position), called by branch (b) of handleMouseDown
createTextBox(tbs, position) == Append(tbs, TextBox(now, position))

\* handleMouseDown, branch (b): "placing text box" is armed.
MouseDownCreateTextBox(position) ==
    /\ \E typed \in TypedNow :
         textBoxes' = BlurEditor(createTextBox(textBoxes, position), typed)
    /\ textEditor' = NoTextBox
    /\ selectedTextBoxId' = now
    /\ isAddingTextBox' = FALSE
    /\ Rendered(lines, selectedLineIndex)
    /\ UNCHANGED <<selectedLineIndex, isDrawing, currentLine, extendingLine,
                   currentSegmentId, isDraggingTextBox, dragOffset, lastClickTime>>

\* handleMouseDown, branches (c), (d), (e): extend from an end point, select
\* a line, or start a new line.
MouseDownOnCanvas(position) ==
    LET nearEndpoint == findLineEndPoint(lines, position)
        clickedLineIndex == findClickedLine(lines, position)
    IN  /\ selectedTextBoxId' = NoTextBox
        /\ \E typed \in TypedNow : textBoxes' = BlurEditor(textBoxes, typed)
        /\ textEditor' = NoTextBox
        /\ UNCHANGED <<isAddingTextBox, isDraggingTextBox, dragOffset, lastClickTime>>
        /\ IF nearEndpoint # NULL
           THEN LET line == lines[nearEndpoint.lineIndex + 1]
                    isStart == nearEndpoint.isStart
                    segmentId == IF line.segmentId # NoSegment THEN line.segmentId
                                 ELSE generateSegmentId
                    updatedLines ==
                        IF line.segmentId # NoSegment THEN lines
                        ELSE [lines EXCEPT ![nearEndpoint.lineIndex + 1] =
                                 [line EXCEPT !.segmentId = segmentId,
                                              !.isEndSegment =
                                                  IF isStart THEN "true" ELSE "false"]]
                IN  /\ isDrawing' = TRUE
                    /\ extendingLine' = TRUE
                    /\ currentSegmentId' = segmentId
                    /\ currentLine' = Line(IF isStart THEN line.start ELSE line.end,
                                           position, 0, segmentId, "true")
                    /\ selectedLineIndex' = NoLine
                    /\ Rendered(updatedLines, NoLine)
           ELSE IF clickedLineIndex # NoLine
           THEN /\ selectedLineIndex' = clickedLineIndex
                /\ isDrawing' = FALSE
                /\ extendingLine' = FALSE
                /\ RenderedIf(selectedTextBoxId # NoTextBox \/ textEditor # NoTextBox
                                \/ selectedLineIndex # clickedLineIndex
                                \/ isDrawing \/ extendingLine,
                              [lines EXCEPT ![clickedLineIndex + 1] =
                                  drawArrow(lines[clickedLineIndex + 1], TRUE)],
                              clickedLineIndex)
                /\ UNCHANGED <<currentLine, currentSegmentId>>
           ELSE /\ selectedLineIndex' = NoLine
                /\ isDrawing' = TRUE
                /\ extendingLine' = FALSE
                /\ currentSegmentId' = NoSegment
                /\ currentLine' = Line(position, position, 0, NoSegment, "undefined")
                /\ Rendered(lines, NoLine)

\* The lines without segmentId whose end is within the end point threshold of
\* position.
StandaloneEndsNear(ls, position) ==
    {i \in 0..(Len(ls) - 1) :
        /\ ls[i + 1].segmentId = NoSegment
        /\ distanceToPointLt(position, ls[i + 1].end, EndpointThreshold)}

\* handleMouseDown
handleMouseDown(e) ==
    /\ imageUrl # "none"
    /\ UNCHANGED <<imageVars, now>>
    /\ LET position == getScaledCoordinates(e)
           clickedTextBox == findClickedTextBox(textBoxes, position)
       IN  IF IsOutOfBounds(position)
           THEN UNCHANGED <<lineVars, textVars, renderedLines, pressedEnds>>
           ELSE IF clickedTextBox # NULL
           THEN MouseDownOnTextBox(position, clickedTextBox) /\ pressedEnds' = {}
           ELSE IF isAddingTextBox
           THEN MouseDownCreateTextBox(position) /\ pressedEnds' = {}
           ELSE /\ MouseDownOnCanvas(position)
                /\ pressedEnds' = StandaloneEndsNear(lines, position)

\* ------------------------------------------------------------ pointer-move
\* handleMouseMove
handleMouseMove(e) ==
    /\ UNCHANGED pressedEnds
    /\ imageUrl # "none"
    /\ UNCHANGED <<imageVars, now>>
    /\ LET position == getScaledCoordinates(e)
       IN  IF IsOutOfBounds(position)
           THEN UNCHANGED <<lineVars, textVars, renderedLines>>
           ELSE IF isDraggingTextBox /\ selectedTextBoxId # NoTextBox
           THEN /\ textBoxes' =
                      [i \in 1..Len(textBoxes) |->
                          IF textBoxes[i].id = selectedTextBoxId
                          THEN [textBoxes[i] EXCEPT !.position =
                                   [x |-> position.x - dragOffset.x,
                                    y |-> position.y - dragOffset.y]]
                          ELSE textBoxes[i]]
                /\ Rendered(lines, selectedLineIndex)
                /\ UNCHANGED <<selectedLineIndex, isDrawing, currentLine, extendingLine,
                               currentSegmentId, selectedTextBoxId, isAddingTextBox,
                               isDraggingTextBox, dragOffset, lastClickTime, textEditor>>
           ELSE IF isDrawing /\ currentLine # NULL
           THEN /\ currentLine' = [currentLine EXCEPT !.end = position]
                /\ Rendered(lines, selectedLineIndex)
                /\ UNCHANGED <<selectedLineIndex, isDrawing, extendingLine,
                               currentSegmentId, textVars>>
           ELSE UNCHANGED <<lineVars, textVars, renderedLines>>

\* -------------------------------------------------------------- pointer-up
\* The lines after handleMouseUp, buggy variant: the new line is dropped.
MouseUpLinesDropped(ls, cur, extending) == ls

\* handleMouseUp, the part that ends a drawing gesture: the lines after
\* setLines, given the in-progress line.
MouseUpLines(ls, cur, extending) ==
    LET nearEndpoint == findLineEndPoint(ls, cur.end)
        newLine == [cur EXCEPT !.curvature = 0]
    IN  IF extending /\ nearEndpoint # NULL
        THEN LET targetLine == ls[nearEndpoint.lineIndex + 1]
             IN  IF targetLine.segmentId # cur.segmentId
                 THEN Append(
                        [ls EXCEPT ![nearEndpoint.lineIndex + 1] =
                            [targetLine EXCEPT !.segmentId = cur.segmentId,
                                               !.isEndSegment = "true"]],
                        [newLine EXCEPT
                            !.end = IF nearEndpoint.isStart THEN targetLine.start
                                    ELSE targetLine.end,
                            !.isEndSegment = "false"])
                 ELSE Append(ls, newLine)
        ELSE Append(ls, newLine)

\* handleMouseUp
handleMouseUp ==
    /\ pressedEnds' = {}
    /\ imageUrl # "none"
    /\ UNCHANGED <<imageVars, now>>
    /\ IF isDraggingTextBox
       THEN /\ isDraggingTextBox' = FALSE
            /\ textBoxes' =
                  [i \in 1..Len(textBoxes) |->
                      IF textBoxes[i].id = selectedTextBoxId
                      THEN [textBoxes[i] EXCEPT !.isDragging = FALSE]
                      ELSE textBoxes[i]]
            /\ Rendered(lines, selectedLineIndex)
            /\ UNCHANGED <<selectedLineIndex, isDrawing, currentLine, extendingLine,
                           currentSegmentId, selectedTextBoxId, isAddingTextBox,
                           dragOffset, lastClickTime, textEditor>>
       ELSE /\ IF isDrawing /\ currentLine # NULL
               THEN /\ currentLine' = NULL
                    /\ selectedLineIndex' = Len(lines)
                    /\ Rendered(MouseUpLines(lines, currentLine, extendingLine),
                                Len(lines))
               ELSE /\ UNCHANGED <<currentLine, selectedLineIndex>>
                    /\ RenderedIf(isDrawing \/ extendingLine
                                    \/ currentSegmentId # NoSegment,
                                  lines, selectedLineIndex)
            /\ isDrawing' = FALSE
            /\ extendingLine' = FALSE
            /\ currentSegmentId' = NoSegment
            /\ UNCHANGED textVars

\* handleMouseLeave
handleMouseLeave ==
    /\ pressedEnds' = {}
    /\ imageUrl # "none"
    /\ UNCHANGED <<imageVars, now, textVars>>
    /\ IF isDrawing /\ currentLine # NULL
       THEN /\ currentLine' = NULL
            /\ Rendered(Append(lines, currentLine), selectedLineIndex)
       ELSE /\ UNCHANGED currentLine
            /\ RenderedIf(isDrawing, lines, selectedLineIndex)
    /\ isDrawing' = FALSE
    /\ UNCHANGED <<selectedLineIndex, extendingLine, currentSegmentId>>

\* ------------------------------------------------------------------ buttons
\* A button is clicked or activated only after the focus left an open
\* textarea (its blur has run finishEditing).
ButtonsUsable == imageUrl # "none" /\ textEditor = NoTextBox

\* "Add Text Box" / "Cancel Text Box" onClick
ToggleAddTextBox ==
    /\ UNCHANGED pressedEnds
    /\ ButtonsUsable
    /\ isAddingTextBox' = ~isAddingTextBox
    /\ selectedLineIndex' = NoLine
    /\ selectedTextBoxId' = NoTextBox
    /\ Rendered(lines, NoLine)
    /\ UNCHANGED <<imageVars, now, isDrawing, currentLine, extendingLine,
                   currentSegmentId, textBoxes, isDraggingTextBox, dragOffset,
                   lastClickTime, textEditor>>

\* The curvature input's onChange, buggy variant: every line is bent.
SetCurvatureOfAll(ls, sel, newCurvature) ==
    [i \in 1..Len(ls) |-> [ls[i] EXCEPT !.curvature = newCurvature]]

\* The new line list of the curvature input's onChange.
SetCurvature(ls, sel, newCurvature) ==
    [i \in 1..Len(ls) |->
        IF i - 1 = sel THEN [ls[i] EXCEPT !.curvature = newCurvature] ELSE ls[i]]

\* curvature input onChange (shown while an Arrow index is selected)
CurvatureChange(newCurvature) ==
    /\ UNCHANGED pressedEnds
    /\ ButtonsUsable
    /\ selectedLineIndex # NoLine
    /\ Rendered(SetCurvature(lines, selectedLineIndex, newCurvature),
                selectedLineIndex)
    /\ UNCHANGED <<imageVars, now, selectedLineIndex, isDrawing, currentLine,
                   extendingLine, currentSegmentId, textVars>>

\* "Deselect" onClick of the arrow controls
DeselectLine ==
    /\ UNCHANGED pressedEnds
    /\ ButtonsUsable
    /\ selectedLineIndex # NoLine
    /\ selectedLineIndex' = NoLine
    /\ Rendered(lines, NoLine)
    /\ UNCHANGED <<imageVars, now, isDrawing, currentLine, extendingLine,
                   currentSegmentId, textVars>>

\* The Delete button is rendered only inside the text box controls.
DeleteAvailable == ButtonsUsable /\ selectedTextBoxId # NoTextBox

\* "Edit Text" onClick
EditTextBox ==
    /\ UNCHANGED pressedEnds
    /\ ButtonsUsable
    /\ selectedTextBoxId # NoTextBox
    /\ textBoxes' = startEditingTextBox(textBoxes, selectedTextBoxId)
    /\ textEditor' = IF HasTextBox(textBoxes, selectedTextBoxId)
                     THEN selectedTextBoxId ELSE textEditor
    /\ Rendered(lines, selectedLineIndex)
    /\ UNCHANGED <<imageVars, now, selectedLineIndex, isDrawing, currentLine,
                   extendingLine, currentSegmentId, selectedTextBoxId,
                   isAddingTextBox, isDraggingTextBox, dragOffset, lastClickTime>>

\* The text boxes left by "Delete".
RemoveTextBox(tbs, id) == SelectSeq(tbs, LAMBDA box : box.id # id)

\* "Delete" onClick of the text box controls
DeleteTextBox ==
    /\ UNCHANGED pressedEnds
    /\ DeleteAvailable
    /\ textBoxes' = RemoveTextBox(textBoxes, selectedTextBoxId)
    /\ selectedTextBoxId' = NoTextBox
    /\ Rendered(lines, selectedLineIndex)
    /\ UNCHANGED <<imageVars, now, selectedLineIndex, isDrawing, currentLine,
                   extendingLine, currentSegmentId, isAddingTextBox,
                   isDraggingTextBox, dragOffset, lastClickTime, textEditor>>

\* "Deselect" onClick of the text box controls
DeselectTextBox ==
    /\ UNCHANGED pressedEnds
    /\ ButtonsUsable
    /\ selectedTextBoxId # NoTextBox
    /\ selectedTextBoxId' = NoTextBox
    /\ Rendered(lines, selectedLineIndex)
    /\ UNCHANGED <<imageVars, now, selectedLineIndex, isDrawing, currentLine,
                   extendingLine, currentSegmentId, textBoxes, isAddingTextBox,
                   isDraggingTextBox, dragOffset, lastClickTime, textEditor>>

\* "Clear All", buggy variant: the text boxes are kept.
ClearedTextBoxesKept(tbs) == tbs

\* What "Clear All" leaves of the text boxes: setTextBoxes([]).
ClearedTextBoxes(tbs) == <<>>

\* "Clear All" onClick (rendered while a line or a text box exists)
ClearAll ==
    /\ pressedEnds' = {}
    /\ ButtonsUsable
    /\ Len(lines) > 0 \/ Len(textBoxes) > 0
    /\ selectedLineIndex' = NoLine
    /\ selectedTextBoxId' = NoTextBox
    /\ textBoxes' = ClearedTextBoxes(textBoxes)
    /\ Rendered(<<>>, NoLine)
    /\ UNCHANGED <<imageVars, now, isDrawing, currentLine, extendingLine,
                   currentSegmentId, isAddingTextBox, isDraggingTextBox, dragOffset,
                   lastClickTime, textEditor>>

\* The textarea's blur or Enter key
FinishEditing(typed) ==
    /\ UNCHANGED pressedEnds
    /\ textEditor # NoTextBox
    /\ textBoxes' = finishEditing(textBoxes, textEditor, typed)
    /\ textEditor' = NoTextBox
    /\ Rendered(lines, selectedLineIndex)
    /\ UNCHANGED <<imageVars, now, selectedLineIndex, isDrawing, currentLine,
                   extendingLine, currentSegmentId, selectedTextBoxId,
                   isAddingTextBox, isDraggingTextBox, dragOffset, lastClickTime>>

\* -------------------------------------------------------------------- image
LoadedImageSize == [width |-> 800, height |-> 600]

\* page.tsx handleImageUpload: a new image URL reaches ImageCanvas, whose
\* imageUrl effect starts loading it.
UploadImage ==
    /\ UNCHANGED pressedEnds
    /\ imageUrl' = "blob"
    /\ imageLoading' = TRUE
    /\ renderedLines' = lines
    /\ UNCHANGED <<dimensions, lineVars, textVars, now>>

\* img.onload of the imageUrl effect
ImgOnload ==
    /\ pressedEnds' = {}
    /\ imageLoading
    /\ imageLoading' = FALSE
    /\ dimensions' = LoadedImageSize
    /\ Rendered(<<>>, selectedLineIndex)
    /\ UNCHANGED <<imageUrl, now, selectedLineIndex, isDrawing, currentLine,
                   extendingLine, currentSegmentId, textVars>>

\* Time passes.
Tick ==
    /\ UNCHANGED pressedEnds
    /\ now < DoubleClickMs + MaxTicks * TickMs
    /\ now' = now + TickMs
    /\ UNCHANGED <<imageVars, lineVars, textVars, renderedLines>>

\* The arrows that exist or are being drawn.
PendingLines == Len(lines) + (IF isDrawing /\ currentLine # NULL THEN 1 ELSE 0)

\* The state of the two components.
componentVars == <<imageVars, lineVars, textVars, renderedLines>>

\* A run of a handler; lastEvent names it when it changed the state.
Handler(name, run) ==
    /\ run
    /\ lastEvent' = IF componentVars' = componentVars THEN lastEvent ELSE name
    /\ UNCHANGED paintedFrame

\* A pointer-down that stays within the bounds on arrows and text boxes.
PointerDown(events, maxLines) ==
    \E e \in events :
        /\ Handler("handleMouseDown", handleMouseDown(e))
        /\ PendingLines' <= maxLines
        /\ Len(textBoxes') <= MaxTextBoxes

PointerMove(events) ==
    \E e \in events : Handler("handleMouseMove", handleMouseMove(e))

Next ==
    \/ PointerDown(PointerEvents, MaxLines)
    \/ PointerMove(PointerEvents)
    \/ Handler("handleMouseUp", handleMouseUp)
    \/ Handler("handleMouseLeave", handleMouseLeave)
    \/ Handler("ToggleAddTextBox", ToggleAddTextBox)
    \/ \E c \in CurvatureInputs : Handler("CurvatureChange", CurvatureChange(c))
    \/ Handler("DeselectLine", DeselectLine)
    \/ Handler("EditTextBox", EditTextBox)
    \/ Handler("DeleteTextBox", DeleteTextBox)
    \/ Handler("DeselectTextBox", DeselectTextBox)
    \/ Handler("ClearAll", ClearAll)
    \/ \E t \in TypedTexts : Handler("FinishEditing", FinishEditing(t))
    \/ Handler("UploadImage", UploadImage)
    \/ Handler("ImgOnload", ImgOnload)
    \/ Tick /\ UNCHANGED <<lastEvent, paintedFrame>>

Spec == Init /\ [][Next]_vars

\* The user draws, bends, deselects and clears arrows and loads images, and
\* never arms "Add Text Box".
NextArrows ==
    \/ PointerDown(ArrowPointerEvents, MaxArrowLines)
    \/ PointerMove(ArrowPointerEvents)
    \/ Handler("handleMouseUp", handleMouseUp)
    \/ Handler("handleMouseLeave", handleMouseLeave)
    \/ \E c \in CurvatureInputs : Handler("CurvatureChange", CurvatureChange(c))
    \/ Handler("DeselectLine", DeselectLine)
    \/ Handler("ClearAll", ClearAll)
    \/ Handler("UploadImage", UploadImage)
    \/ Handler("ImgOnload", ImgOnload)

SpecArrows == Init /\ [][NextArrows]_vars

\* The user loads one image and then only moves and presses the pointer.
NextChain ==
    \/ PointerDown(ArrowPointerEvents, MaxChainLines)
    \/ PointerMove(ArrowPointerEvents)
    \/ Handler("handleMouseUp", handleMouseUp)
    \/ Handler("handleMouseLeave", handleMouseLeave)
    \/ imageUrl = "none" /\ Handler("UploadImage", UploadImage)
    \/ Handler("ImgOnload", ImgOnload)

SpecChain == Init /\ [][NextChain]_vars

\* Pointer-down, pointer-move and pointer-up with text boxes and up to
\* MaxArrowLines arrows on one image: every branch of handleMouseDown can meet
\* every other (an open textarea is closed by the next pointer-down).
NextPointer ==
    \/ PointerDown(PointerEvents, MaxArrowLines)
    \/ PointerMove(PointerEvents)
    \/ Handler("handleMouseUp", handleMouseUp)
    \/ Handler("ToggleAddTextBox", ToggleAddTextBox)
    \/ imageUrl = "none" /\ Handler("UploadImage", UploadImage)
    \/ Handler("ImgOnload", ImgOnload)

SpecPointer == Init /\ [][NextPointer]_vars

\* ----------------------------------------------------------------- redraws
\* The picture of the current state.
View == Picture(lines, textBoxes, selectedLineIndex, selectedTextBoxId)

\* The branch handleMouseDown takes for event e.
MouseDownBranch(e) ==
    LET position == getScaledCoordinates(e)
    IN  IF IsOutOfBounds(position) THEN "return"
        ELSE IF findClickedTextBox(textBoxes, position) # NULL THEN "textBox"
        ELSE IF isAddingTextBox THEN "createTextBox"
        ELSE IF findLineEndPoint(lines, position) # NULL THEN "extend"
        ELSE IF findClickedLine(lines, position) # NoLine THEN "select"
        ELSE "draw"

\* The branch handleMouseMove takes for event e.
MouseMoveBranch(e) ==
    IF IsOutOfBounds(getScaledCoordinates(e)) THEN "return"
    ELSE IF isDraggingTextBox /\ selectedTextBoxId # NoTextBox THEN "dragTextBox"
    ELSE IF isDrawing /\ currentLine # NULL THEN "draw"
    ELSE "none"

\* handleMouseUp and handleMouseLeave append the in-progress line.
CommitsLine(afterDrag) == ~afterDrag /\ isDrawing /\ currentLine # NULL

\* A run of a handler and every redraw it triggers, in the order they paint.
\*   direct:  the handler calls drawLines() itself; the drawLines of its
\*            render paints the state before its set-state calls;
\*   onFrame: the handler passes requestAnimationFrame a callback that calls
\*            the drawLines of its render;
\*   newRefs: the handler gives lines, currentLine or dimensions a new
\*            object, so a redraw effect of the next render paints the new
\*            state.
\* A changed selectedLineIndex runs the redraw effect too and the selection
\* effect requests an animation frame of its own, after the handler's
\* request, whose callback paints the new state.  The handler's callback and
\* a redraw effect paint in either order.
Painting(name, run, direct, onFrame, newRefs) ==
    /\ run
    /\ lastEvent' = IF componentVars' = componentVars THEN lastEvent ELSE name
    /\ IF selectedLineIndex' # selectedLineIndex THEN paintedFrame' = View'
       ELSE IF onFrame /\ newRefs THEN paintedFrame' \in {View, View'}
       ELSE IF onFrame THEN paintedFrame' = View
       ELSE IF newRefs THEN paintedFrame' = View'
       ELSE IF direct THEN paintedFrame' = View
       ELSE UNCHANGED paintedFrame

\* The user draws and selects arrows, places, drags, deselects and deletes
\* text boxes and clears the canvas; the text editor is never opened (no
\* second pointer-down on a text box within the double-click threshold).
NextPaint ==
    \/ \E e \in PointerEvents :
          /\ Painting("handleMouseDown", handleMouseDown(e),
                      MouseDownBranch(e) = "createTextBox", FALSE,
                      MouseDownBranch(e) \in {"extend", "draw"})
          /\ PendingLines' <= MaxLines
          /\ Len(textBoxes') <= MaxTextBoxes
          /\ textEditor' = NoTextBox
    \/ \E e \in PointerEvents :
          Painting("handleMouseMove", handleMouseMove(e),
                   MouseMoveBranch(e) = "dragTextBox", FALSE,
                   MouseMoveBranch(e) = "draw")
    \/ Painting("handleMouseUp", handleMouseUp, FALSE, FALSE,
                CommitsLine(isDraggingTextBox))
    \/ Painting("handleMouseLeave", handleMouseLeave, FALSE, FALSE,
                CommitsLine(FALSE))
    \/ Painting("ToggleAddTextBox", ToggleAddTextBox, FALSE, FALSE, FALSE)
    \/ Painting("DeselectLine", DeselectLine, FALSE, TRUE, FALSE)
    \/ Painting("DeleteTextBox", DeleteTextBox, TRUE, FALSE, FALSE)
    \/ Painting("DeselectTextBox", DeselectTextBox, TRUE, FALSE, FALSE)
    \/ Painting("ClearAll", ClearAll, FALSE, TRUE, TRUE)
    \/ imageUrl = "none" /\ Painting("UploadImage", UploadImage, FALSE, FALSE, FALSE)
    \/ Painting("ImgOnload", ImgOnload, FALSE, FALSE, TRUE)
    \/ Tick /\ UNCHANGED <<lastEvent, paintedFrame>>

SpecPaint == Init /\ [][NextPaint]_vars

\* The user places one text box, presses on it, on its resize handle and
\* beside it, drags, draws an arrow and lets time pass; nothing is deleted.
NextTextBox ==
    \/ PointerDown(TextBoxPointerEvents, MaxLines)
    \/ PointerMove(TextBoxPointerEvents)
    \/ Handler("handleMouseUp", handleMouseUp)
    \/ Handler("ToggleAddTextBox", ToggleAddTextBox)
    \/ imageUrl = "none" /\ Handler("UploadImage", UploadImage)
    \/ Handler("ImgOnload", ImgOnload)
    \/ Tick /\ UNCHANGED <<lastEvent, paintedFrame>>

SpecTextBox == Init /\ [][NextTextBox]_vars

\* An image is loaded and the user has drawn one arrow from start to end:
\* pointer-up appended it and selected it, CoordinatesOutput was rendered and
\* the redraw effect stored its control point.
InitExport ==
    \E start \in ExportPoints, end \in ExportPoints :
        LET newLine == Line(start, end, 0, NoSegment, "undefined")
        IN  /\ imageUrl = "blob"
            /\ imageLoading = FALSE
            /\ dimensions = LoadedImageSize
            /\ renderedLines = <<newLine>>
            /\ lines = drawLines(<<newLine>>, 0)
            /\ selectedLineIndex = 0
            /\ isDrawing = FALSE
            /\ currentLine = NULL
            /\ extendingLine = FALSE
            /\ currentSegmentId = NoSegment
            /\ textBoxes = <<>>
            /\ selectedTextBoxId = NoTextBox
            /\ isAddingTextBox = FALSE
            /\ isDraggingTextBox = FALSE
            /\ dragOffset = [x |-> 0, y |-> 0]
            /\ lastClickTime = 0
            /\ textEditor = NoTextBox
            /\ now = DoubleClickMs
            /\ lastEvent = "handleMouseUp"
            /\ paintedFrame = Picture(<<newLine>>, <<>>, 0, NoTextBox)
            /\ pressedEnds = {}

\* The user bends the arrow and deselects it.
NextExport ==
    \/ \E c \in ExportCurvatures : Handler("CurvatureChange", CurvatureChange(c))
    \/ Handler("DeselectLine", DeselectLine)

SpecExport == InitExport /\ [][NextExport]_vars

\* ------------------------------------------------------------------ claims
\* The 0-based indices of a line list.
Indices(ls) == 0..(Len(ls) - 1)

\* C1: in every reachable state it is never the case that both an Arrow index
\* and a TextBox id are selected.
SelectionMutuallyExclusive ==
    ~(selectedLineIndex # NoLine /\ selectedTextBoxId # NoTextBox)

\* An arrow whose end points are farther apart than the end point threshold.
Proper(line) == ~distanceToPointLt(line.start, line.end, EndpointThreshold)

\* C2: in every reachable state among the Arrows that share one segmentId
\* exactly one has isEndSegment = true.  Stated for the states in which no
\* drawing gesture is in progress or was abandoned and every Arrow is longer
\* than the end point threshold.
OneArrowheadPerSegment ==
    (~isDrawing /\ currentLine = NULL
        /\ \A i \in Indices(lines) : Proper(lines[i + 1])) =>
        \A i \in Indices(lines) :
            lines[i + 1].segmentId # NoSegment =>
                Cardinality({j \in Indices(lines) :
                    /\ lines[j + 1].segmentId = lines[i + 1].segmentId
                    /\ lines[j + 1].isEndSegment = "true"}) = 1

\* C3: when a pointer-down within 15 px of the end of an Arrow A without
\* segmentId is followed by a pointer-up within 15 px of the start of another
\* Arrow B, then after the pointer-up A and B share one segmentId and exactly
\* one of A, B and the newly drawn Arrow has isEndSegment = true, the other
\* two false.  Stated for A, B and a newly drawn Arrow that are each longer
\* than the end point threshold.
ChainingJoinsWithOneArrowhead ==
    [][(handleMouseUp /\ isDrawing /\ currentLine # NULL) =>
          \A a \in pressedEnds : \A b \in Indices(lines) \ {a} :
              (/\ distanceToPointLt(currentLine.end, lines[b + 1].start,
                                    EndpointThreshold)
               /\ Proper(lines[a + 1])
               /\ Proper(lines[b + 1])
               /\ Proper(currentLine)) =>
                  LET trio == {a + 1, b + 1, Len(lines) + 1}
                      heads == {k \in trio : lines'[k].isEndSegment = "true"}
                      tails == {k \in trio : lines'[k].isEndSegment = "false"}
                  IN  /\ Len(lines') = Len(lines) + 1
                      /\ lines'[a + 1].segmentId # NoSegment
                      /\ lines'[a + 1].segmentId = lines'[b + 1].segmentId
                      /\ Cardinality(heads) = 1
                      /\ Cardinality(tails) = 2]_vars

\* C4: once a new image has loaded, the Arrow list and the TextBox list are
\* both empty and neither an Arrow nor a TextBox is selected.
NewImageDiscardsAnnotations ==
    lastEvent = "ImgOnload" =>
        /\ lines = <<>>
        /\ textBoxes = <<>>
        /\ selectedLineIndex = NoLine
        /\ selectedTextBoxId = NoTextBox

\* C5: right after "Clear All" the Arrow list is empty, the TextBox list is
\* empty and both the Arrow selection and the TextBox selection are null.
ClearAllEmptiesEverything ==
    lastEvent = "ClearAll" =>
        /\ lines = <<>>
        /\ textBoxes = <<>>
        /\ selectedLineIndex = NoLine
        /\ selectedTextBoxId = NoTextBox

\* "Clear All" has just emptied the lists of a session in which a text box
\* had been pressed (the press recorded lastClickTime).
ClearAllAfterAnnotating ==
    /\ lastEvent = "ClearAll"
    /\ lastClickTime > 0
    /\ lines = <<>>
    /\ textBoxes = <<>>

\* C6: a selected Arrow and a selected TextBox can each be removed by the
\* Delete action (a Delete step removing it is possible), and every Delete
\* step removes exactly the selected entity: its list shrinks by one and no
\* other Arrow or TextBox changes.
DeleteRemovesExactlyTheSelected ==
    /\ (ButtonsUsable /\ selectedLineIndex \in Indices(lines)) =>
           ENABLED (/\ DeleteTextBox
                    /\ Len(lines') = Len(lines) - 1
                    /\ textBoxes' = textBoxes)
    /\ (ButtonsUsable /\ HasTextBox(textBoxes, selectedTextBoxId)) =>
           ENABLED (/\ DeleteTextBox
                    /\ Len(textBoxes') = Len(textBoxes) - 1
                    /\ \A i \in 1..Len(textBoxes') : \E j \in 1..Len(textBoxes) :
                           textBoxes'[i] = textBoxes[j]
                    /\ lines' = lines)

\* C7: whenever an Arrow or a TextBox exists the coordinates output is shown
\* and holds one entry for every Arrow and one for every TextBox, with the
\* Arrow's end points and the TextBox's position and text.
OutputDescribesEveryAnnotation ==
    (Len(lines) > 0 \/ Len(textBoxes) > 0) =>
        /\ coordinatesOutput.shown
        /\ Len(coordinatesOutput.text.jsonLines) = Len(lines)
        /\ Len(coordinatesOutput.text.jsonTextBoxes) = Len(textBoxes)
        /\ \A i \in 1..Len(lines) :
               /\ coordinatesOutput.text.jsonLines[i].start = RoundPoint(lines[i].start)
               /\ coordinatesOutput.text.jsonLines[i].end = RoundPoint(lines[i].end)
        /\ \A i \in 1..Len(textBoxes) :
               /\ coordinatesOutput.text.jsonTextBoxes[i].position
                      = RoundPoint(textBoxes[i].position)
               /\ coordinatesOutput.text.jsonTextBoxes[i].text = textBoxes[i].text

\* C8: when a pointer-down at p selects Arrow i through findClickedLine (no
\* text box and no end point is hit first), findClickedLine at p on the lines
\* as they are after the selection and its redraw returns i again.
HitTestIdempotentUnderSelection ==
    [][\A e \in ArrowPointerEvents :
          LET position == getScaledCoordinates(e)
          IN  (/\ handleMouseDown(e)
               /\ ~IsOutOfBounds(position)
               /\ findClickedTextBox(textBoxes, position) = NULL
               /\ ~isAddingTextBox
               /\ findLineEndPoint(lines, position) = NULL
               /\ findClickedLine(lines, position) # NoLine)
              => /\ selectedLineIndex' = findClickedLine(lines, position)
                 /\ findClickedLine(lines', position) = selectedLineIndex']_vars

\* A pointer-down has just selected a curved arrow that carries its control
\* point.
CurvedArrowSelectedByPointer ==
    /\ lastEvent = "handleMouseDown"
    /\ ~isDrawing
    /\ selectedLineIndex \in Indices(lines)
    /\ lines[selectedLineIndex + 1].curvature # 0
    /\ lines[selectedLineIndex + 1].controlPoint.def

\* The direction (cx, cy) of an angle of k * 45 degrees, in hundredths of a
\* degree.
OctantDirection(deg100) ==
    CASE deg100 = 0 -> [x |-> 1, y |-> 0]
      [] deg100 = 4500 -> [x |-> 1, y |-> 1]
      [] deg100 = 9000 -> [x |-> 0, y |-> 1]
      [] deg100 = 13500 -> [x |-> -1, y |-> 1]
      [] deg100 = 18000 -> [x |-> -1, y |-> 0]
      [] deg100 = -4500 -> [x |-> 1, y |-> -1]
      [] deg100 = -9000 -> [x |-> 0, y |-> -1]
      [] deg100 = -13500 -> [x |-> -1, y |-> -1]
      [] OTHER -> [x |-> 0, y |-> 0]

\* v (hundredths) is n/den rounded to the nearest hundredth.
NearestHundredth(v, n, den) == 2 * Abs(v * den - 100 * n) <= den

\* C9: the block of every Arrow in the coordinates output carries the start
\* and the end rounded to 2 decimals, the Euclidean length of the reported
\* arrow rounded to 2 decimals and the angle atan2(dy, dx) of its direction in
\* degrees; the Arrow from (100,100) to (200,100) with curvature 0 is reported
\* with Start (100,100), End (200,100), Length 100.00, Angle 0.00.
ExporterReportsArrowGeometry ==
    /\ coordinatesOutput.shown
    /\ Len(coordinatesOutput.text.standalone) = Len(renderedLines)
    /\ \A i \in 1..Len(renderedLines) :
           LET line == renderedLines[i]
               b == coordinatesOutput.text.standalone[i]
               dx == b.end.x - b.start.x
               dy == b.end.y - b.start.y
               X == dx * dx + dy * dy
               L == b.length
               dir == OctantDirection(b.angle.deg100)
           IN  /\ NearestHundredth(b.start.x, line.start.x, CoordDen)
               /\ NearestHundredth(b.start.y, line.start.y, CoordDen)
               /\ NearestHundredth(b.end.x, line.end.x, CoordDen)
               /\ NearestHundredth(b.end.y, line.end.y, CoordDen)
               /\ L >= 0
               /\ X <= L * L + L
               /\ L = 0 \/ X > L * L - L
               /\ IF b.angle.exact
                  THEN /\ dir # [x |-> 0, y |-> 0]
                       /\ dx * dir.y - dy * dir.x = 0
                       /\ dx * dir.x + dy * dir.y >= 0
                       /\ (dx = 0 /\ dy = 0) => b.angle.deg100 = 0
                  ELSE b.angle.dx = dx /\ b.angle.dy = dy
               /\ (line.start = Pt(100, 100) /\ line.end = Pt(200, 100)
                       /\ line.curvature = 0) =>
                      /\ b.start = [x |-> 10000, y |-> 10000]
                      /\ b.end = [x |-> 20000, y |-> 10000]
                      /\ b.length = 10000
                      /\ b.angle.exact /\ b.angle.deg100 = 0
                      /\ ~b.hasCurvature

\* The straight arrow from (100,100) to (200,100) is exported after it was
\* deselected.
ScenarioArrowExported ==
    /\ lastEvent = "DeselectLine"
    /\ coordinatesOutput.shown
    /\ Len(renderedLines) = 1
    /\ renderedLines[1].start = Pt(100, 100)
    /\ renderedLines[1].end = Pt(200, 100)
    /\ renderedLines[1].curvature = 0

\* C10: for every Arrow with curvature c and end points A, B (A = B
\* included) the control point is a point at distance |c| * |AB| / 2 from the
\* midpoint of AB, displaced perpendicular to AB on the side given by the
\* sign of c; the selected Arrow carries it.
ControlPointOffsetsMidpoint ==
    \A i \in 1..Len(lines) :
        LET line == lines[i]
            c == line.curvature
            cp == calculateControlPoint(line.start, line.end, c)
            dx == line.end.x - line.start.x
            dy == line.end.y - line.start.y
            ox == cp.x - 4 * (line.start.x + line.end.x)
            oy == cp.y - 4 * (line.start.y + line.end.y)
            side == dx * oy - dy * ox
        IN  /\ ~cp.nan
            /\ ox * ox + oy * oy = c * c * (dx * dx + dy * dy)
            /\ ox * dx + oy * dy = 0
            /\ (c > 0 /\ (dx # 0 \/ dy # 0)) => side > 0
            /\ (c < 0 /\ (dx # 0 \/ dy # 0)) => side < 0
            /\ (i - 1 = selectedLineIndex) => line.controlPoint = cp

\* The curvature range of the input element, -0.5 .. 0.5, in 1/CurvDen.
CurvatureRange == (-(CurvDen \div 2))..(CurvDen \div 2)

\* C11: every Arrow of the list has curvature in [-0.5, 0.5]; an Arrow enters
\* the list with curvature 0, and the curvature of an Arrow of the list
\* changes only in a step of the curvature input, and only for the selected
\* Arrow.
CurvatureBoundedAndOwned ==
    /\ [](\A i \in 1..Len(lines) : lines[i].curvature \in CurvatureRange)
    /\ [][/\ Len(lines') > Len(lines) =>
                /\ Len(lines') = Len(lines) + 1
                /\ lines'[Len(lines')].curvature = 0
          /\ \A i \in 1..Len(lines) :
                (i <= Len(lines') /\ lines'[i].curvature # lines[i].curvature) =>
                    /\ lastEvent' = "CurvatureChange"
                    /\ i - 1 = selectedLineIndex]_vars

\* The curvature input has just bent the selected one of two arrows; the
\* other one is straight.
OneOfTwoArrowsBent ==
    /\ lastEvent = "CurvatureChange"
    /\ Len(lines) = 2
    /\ selectedLineIndex \in Indices(lines)
    /\ lines[selectedLineIndex + 1].curvature # 0
    /\ \E i \in 1..2 : lines[i].curvature = 0

\* C12: a pointer-down or pointer-move for which getScaledCoordinates yields
\* the sentinel {-1,-1} changes nothing: the Arrow list, the TextBox list,
\* both selections, the in-progress Arrow and every mode flag keep their
\* values.
OutOfBoundsPointerIgnored ==
    [][\A e \in PointerEvents :
          (/\ getScaledCoordinates(e) = OutOfBounds
           /\ handleMouseDown(e) \/ handleMouseMove(e))
          => UNCHANGED <<lines, textBoxes, selectedLineIndex, selectedTextBoxId,
                         currentLine, isDrawing, extendingLine, currentSegmentId,
                         isAddingTextBox, isDraggingTextBox, dragOffset,
                         textEditor, lastClickTime>>]_vars

\* An arrow is being dragged over a loaded image while a text box exists and
\* the pointer can leave the image: the state a refused pointer-move leaves
\* as it is.
DraggingWherePointerCanLeave ==
    /\ dimensions.width # 0
    /\ isDrawing
    /\ currentLine # NULL
    /\ Len(textBoxes) > 0
    /\ \E e \in PointerEvents :
          /\ getScaledCoordinates(e) = OutOfBounds
          /\ ENABLED handleMouseMove(e)

\* C13: in no reachable state are an arrow-drawing gesture (isDrawing) and a
\* text box drag (isDraggingTextBox) both active.
AtMostOneGesture == ~(isDrawing /\ isDraggingTextBox)

\* position is within the end point threshold of an end point of a line of ls.
NearSomeEndPoint(ls, position) ==
    \E i \in 1..Len(ls) :
        \/ distanceToPointLt(position, ls[i].start, EndpointThreshold)
        \/ distanceToPointLt(position, ls[i].end, EndpointThreshold)

\* C14: an in-bounds pointer-down takes exactly the first branch that applies:
\* (a) a text box contains the point: that box is selected, nothing is created
\* and no arrow gesture starts; (b) else, placing mode is armed: a TextBox is
\* created at the point and the mode is disarmed; (c) else, the point is
\* within 15 px of an Arrow end point: an extension starts from that end point;
\* (d) else, an Arrow is hit: it is selected; (e) else a new Arrow starts at
\* the point.
PointerDownTakesFirstBranch ==
    [][\A e \in PointerEvents :
          LET p == getScaledCoordinates(e)
              inBox == \E i \in 1..Len(textBoxes) : isPointInTextBox(p, textBoxes[i])
              noGestureChange == /\ isDrawing' = isDrawing
                                 /\ extendingLine' = extendingLine
                                 /\ currentLine' = currentLine
              sameBoxes == Len(textBoxes') = Len(textBoxes)
          IN  (handleMouseDown(e) /\ p # OutOfBounds) =>
                 CASE inBox ->
                        /\ sameBoxes
                        /\ \E i \in 1..Len(textBoxes) :
                              /\ textBoxes[i].id = selectedTextBoxId'
                              /\ isPointInTextBox(p, textBoxes[i])
                        /\ isAddingTextBox' = isAddingTextBox
                        /\ noGestureChange
                   [] ~inBox /\ isAddingTextBox ->
                        /\ Len(textBoxes') = Len(textBoxes) + 1
                        /\ textBoxes'[Len(textBoxes')].position = p
                        /\ ~isAddingTextBox'
                        /\ noGestureChange
                        /\ selectedLineIndex' = selectedLineIndex
                   [] ~inBox /\ ~isAddingTextBox /\ NearSomeEndPoint(lines, p) ->
                        /\ sameBoxes
                        /\ isDrawing' /\ extendingLine'
                        /\ currentLine' # NULL
                        /\ currentLine'.end = p
                        /\ distanceToPointLt(p, currentLine'.start, EndpointThreshold)
                        /\ \E i \in 1..Len(lines) :
                              currentLine'.start \in {lines[i].start, lines[i].end}
                   [] /\ ~inBox /\ ~isAddingTextBox /\ ~NearSomeEndPoint(lines, p)
                      /\ findClickedLine(lines, p) # NoLine ->
                        /\ sameBoxes
                        /\ selectedLineIndex' = findClickedLine(lines, p)
                        /\ ~isDrawing' /\ ~extendingLine'
                        /\ currentLine' = currentLine
                   [] OTHER ->
                        /\ sameBoxes
                        /\ isDrawing' /\ ~extendingLine'
                        /\ currentLine' = Line(p, p, 0, NoSegment, "undefined")
                        /\ selectedLineIndex' = NoLine]_vars

\* Branch (b) has just won over branch (c): a TextBox was created on a point
\* that is an end point of an existing Arrow.
TextBoxPlacedOnEndPoint ==
    /\ lastEvent = "handleMouseDown"
    /\ dimensions.width # 0
    /\ Len(textBoxes) = 1
    /\ selectedTextBoxId = textBoxes[1].id
    /\ ~isDraggingTextBox /\ textEditor = NoTextBox /\ ~isAddingTextBox
    /\ ~isDrawing
    /\ \E i \in 1..Len(lines) : lines[i].start = textBoxes[1].position

\* The end points of line t of ls that lie within the end point threshold of
\* position.
EndPointsNear(ls, t, position) ==
    {pt \in {ls[t].start, ls[t].end} :
        distanceToPointLt(position, pt, EndpointThreshold)}

\* C15: when the pointer is released while extending and the release point is
\* within 15 px of an end point of an Arrow of a different segment, a merge
\* with such an Arrow happens: the target takes the chain's segmentId and
\* becomes the end segment, and the new Arrow is no end segment and ends on
\* the target's end point.  (Stated for arrows longer than the threshold.)
ReleaseNearOtherSegmentMerges ==
    [][(/\ handleMouseUp
        /\ isDrawing /\ currentLine # NULL /\ extendingLine
        /\ ~isDraggingTextBox
        /\ Proper(currentLine)
        /\ \A i \in 1..Len(lines) : Proper(lines[i]))
       => LET targets == {t \in 1..Len(lines) :
                             /\ lines[t].segmentId # currentLine.segmentId
                             /\ EndPointsNear(lines, t, currentLine.end) # {}}
              new == Len(lines) + 1
          IN  targets # {} =>
                 /\ Len(lines') = new
                 /\ \E t \in targets :
                       /\ lines'[t].segmentId = currentLine.segmentId
                       /\ lines'[t].isEndSegment = "true"
                       /\ lines'[new].isEndSegment = "false"
                       /\ lines'[new].segmentId = currentLine.segmentId
                       /\ lines'[new].end \in EndPointsNear(lines, t, currentLine.end)]_vars

\* C16: a pointer-up that ends a drawing or extending gesture adds exactly one
\* Arrow, at the end of the list; that Arrow has curvature 0 and its index is
\* the Arrow selection afterwards, in the merge case too.
PointerUpAddsOneSelectedArrow ==
    [][(handleMouseUp /\ isDrawing /\ currentLine # NULL /\ ~isDraggingTextBox)
       => /\ Len(lines') = Len(lines) + 1
          /\ lines'[Len(lines) + 1].curvature = 0
          /\ lines'[Len(lines) + 1].start = currentLine.start
          /\ selectedLineIndex' = Len(lines)
          /\ \A i \in 1..Len(lines) :
                /\ lines'[i].start = lines[i].start
                /\ lines'[i].end = lines[i].end
                /\ lines'[i].curvature = lines[i].curvature]_vars

\* A pointer-up has just merged two segments: the third Arrow is selected and
\* is no end segment.
MergedArrowSelected ==
    /\ lastEvent = "handleMouseUp"
    /\ Len(lines) = 3
    /\ selectedLineIndex = 2
    /\ lines[3].segmentId # NoSegment
    /\ lines[3].isEndSegment = "false"

\* A line list without the control points the redraw stores.
Drawn(ls) == [i \in 1..Len(ls) |-> [ls[i] EXCEPT !.controlPoint = NoControlPoint]]

\* C17: a pointer-leave while an Arrow is being drawn leaves the state a
\* pointer-up at the same point leaves when no merge applies: the in-progress
\* Arrow appended to the list, the new Arrow selected, isDrawing and
\* extendingLine false, no current segment and no in-progress Arrow.
PointerLeaveCommitsLikePointerUp ==
    [][(/\ handleMouseLeave
        /\ dimensions.width # 0
        /\ isDrawing /\ currentLine # NULL /\ ~isDraggingTextBox
        /\ LET nearEndpoint == findLineEndPoint(lines, currentLine.end)
           IN  ~(/\ extendingLine
                 /\ nearEndpoint # NULL
                 /\ lines[nearEndpoint.lineIndex + 1].segmentId # currentLine.segmentId))
       => /\ Drawn(lines') = Drawn(Append(lines, currentLine))
          /\ selectedLineIndex' = Len(lines)
          /\ isDrawing' = FALSE
          /\ extendingLine' = FALSE
          /\ currentSegmentId' = NoSegment
          /\ currentLine' = NULL]_vars

\* C18: after a handler changed the Arrows, the TextBoxes or the selection and
\* every redraw it triggered has run (the handler's own drawLines call, the
\* redraw effects and the animation-frame callbacks), the last frame painted
\* shows exactly the current Arrows, TextBoxes and selection.
LastFrameShowsCommittedState ==
    [][View' # View => paintedFrame' = View']_vars

\* The controlPoint a line carries is the one of its start, end and curvature.
ControlPointCurrent(line) ==
    line.controlPoint = calculateControlPoint(line.start, line.end, line.curvature)

\* C19: a controlPoint that is read equals controlPoint(start, end,
\* curvature) of the Arrow that carries it: the one findClickedLine reads from
\* a curved line of the Arrow list, and the one the exporter reads from the
\* lines it was rendered with, also right after a curvature change.
ReadControlPointIsCurrent ==
    /\ \A i \in 1..Len(lines) :
           (lines[i].curvature # 0 /\ lines[i].controlPoint.def)
               => ControlPointCurrent(lines[i])
    /\ \A i \in 1..Len(renderedLines) :
           renderedLines[i].controlPoint.def => ControlPointCurrent(renderedLines[i])

\* C20: an in-bounds pointer-down that hits a text box (resize handle
\* included) selects that box and deselects any Arrow; it opens the text
\* editor on the box exactly when the previous hit of a text box was less
\* than the double-click threshold ago (under SpecTextBox there is only ever
\* one text box, so that hit was on the same box), and otherwise it begins
\* dragging the box.
TextBoxHitSelectsThenEditsOrDrags ==
    [][\A e \in TextBoxPointerEvents :
         LET position == getScaledCoordinates(e)
             hit == findClickedTextBox(textBoxes, position)
         IN  (/\ handleMouseDown(e)
              /\ dimensions.width # 0
              /\ ~IsOutOfBounds(position)
              /\ hit # NULL)
             => /\ selectedTextBoxId' = hit.textBoxId
                /\ selectedLineIndex' = NoLine
                /\ (textEditor' = hit.textBoxId)
                       <=> (now - lastClickTime < DoubleClickMs)
                /\ (textEditor' # hit.textBoxId)
                       => /\ isDraggingTextBox'
                          /\ FindTextBox(textBoxes', hit.textBoxId).isDragging]_vars

\* C21: the export text emits a controlPoint for an Arrow only if the Arrow's
\* curvature is not 0, in the "Arrow N" and "Segment Line N" blocks and in
\* the JSON section alike.
ControlPointOnlyForCurvedArrows ==
    LET text == coordinatesOutput.text
    IN  /\ \A i \in 1..Len(text.standalone) :
               text.standalone[i].hasControlPoint => text.standalone[i].hasCurvature
        /\ \A k \in 1..Len(text.segments) : \A i \in 1..Len(text.segments[k]) :
               text.segments[k][i].hasControlPoint => text.segments[k][i].hasCurvature
        /\ \A i \in 1..Len(text.jsonLines) :
               text.jsonLines[i].hasControlPoint => text.jsonLines[i].curvature # 0

\* C22: in every reachable state an in-progress Arrow exists (currentLine is
\* not null) exactly when a drawing gesture is active (isDrawing), and after
\* every pointer-up and every pointer-leave no in-progress Arrow is left.
InProgressArrowIffDrawing ==
    /\ []((currentLine # NULL) <=> isDrawing)
    /\ [][(handleMouseUp \/ handleMouseLeave) => currentLine' = NULL]_vars

\* C23: in every reachable state the Arrow selection is null or a valid
\* index into the Arrow list.
SelectionIsNullOrValidIndex ==
    \/ selectedLineIndex = NoLine
    \/ selectedLineIndex \in Indices(lines)

\* The point lies inside the image: 0 <= x <= width and 0 <= y <= height.
InsideImage(p) ==
    /\ 0 <= p.x /\ p.x <= PX(dimensions.width)
    /\ 0 <= p.y /\ p.y <= PX(dimensions.height)

\* C24: while one image is loaded, the start and the end of every Arrow of
\* the list lie inside the image bounds.
ArrowsInsideImage ==
    dimensions.width # 0 =>
        \A i \in 1..Len(lines) : InsideImage(lines[i].start) /\ InsideImage(lines[i].end)

\* Three arrows were drawn on the loaded image, the last one by extending a
\* chain and snapping its end to an existing end point.
SnappedArrowInsideImage ==
    /\ dimensions.width # 0
    /\ lastEvent = "handleMouseUp"
    /\ Len(lines) = 3
    /\ lines[3].segmentId # NoSegment
    /\ lines[3].start # lines[3].end
    /\ \E i \in 1..2 : lines[3].end \in {lines[i].start, lines[i].end}

====
